---- MODULE Spec2Model ----
(***************************************************************************)
(* Model of python/sdr_func.py (Pocket SDR): the parallel code search      *)
(* search_sig() with its helpers shift_freq(), dop_bins(), search_code(),  *)
(* corr_max(), fine_dop(), and the lazily built carrier lookup table of    *)
(* mix_carr().                                                             *)
(*                                                                         *)
(* Units.  Frequencies are integers in Hz.  The code cycle T is an integer *)
(* number of milliseconds, so that DOP_STEP / T and int(fs * T) are exact  *)
(* integer computations.  Real-valued results that are not integers        *)
(* (10*log10(x), the vertex of the fitted parabola, P / P_max) are kept as *)
(* exact fractions num/den.  Floating-point rounding is not modelled.      *)
(***************************************************************************)
EXTENDS Integers, Sequences, FiniteSets, TLC

VARIABLES
    \* ---- search_sig(): arguments, locals, result ----
    args,       \* [sig, prn, data_len, fs, fi, max_dop, zero_pad]
    pc,         \* position in search_sig
    code,       \* code = sdr_code.gen_code(sig, prn)
    fi,         \* local fi (rebound by shift_freq)
    T,          \* code cycle (ms)
    N,          \* samples per code cycle
    code_fft,   \* len(code_fft)
    fds,        \* Doppler search bins
    P,          \* accumulated correlation powers
    i,          \* loop variable of the block loop
    ret,        \* outcome of search_sig
    \* ---- search_sig(): history ----
    nshift,     \* number of shift_freq calls
    offs,       \* block offsets passed to search_code, in order
    corrs,      \* per processed block: the correlator output it was given
    \* ---- a single call of a pure helper ----
    call,       \* the call and its arguments
    out,        \* what it returned
    \* ---- mix_carr() and the global carr_tbl ----
    carr_tbl,   \* global carrier lookup table
    mpc,        \* per caller: position in mix_carr
    libsdr,     \* whether the external library is loaded and enabled
    nbuild,     \* number of assignments to carr_tbl
    tread       \* per caller: length of the table it indexed (-1: none yet)

acqVars == <<args, pc, code, fi, T, N, code_fft, fds, P, i, ret, nshift, offs, corrs>>
fnVars  == <<call, out>>
mixVars == <<carr_tbl, mpc, libsdr, nbuild, tread>>
vars    == <<acqVars, fnVars, mixVars>>

-----------------------------------------------------------------------------
(* Program constants *)

\* DOP_STEP = 0.5 = DOP_STEP_NUM / DOP_STEP_DEN
DOP_STEP_NUM == 1
DOP_STEP_DEN == 2
\* MAX_DOP = 5000.0
MAX_DOP == 5000
\* 0.5625e6, 0.4375e6
G1CA_SPACING == 562500
G2CA_SPACING == 437500
\* n = 256, carrier lookup table size
CARR_TBL_SIZE == 256
\* milliseconds per second (T is kept in ms)
MSEC == 1000

-----------------------------------------------------------------------------
(* Bounds of the model *)

MaxDopK  == 12   \* dop_bins calls: max_dop in {0, 100, ..., 100 * MaxDopK}
MaxPow   == 2    \* cell values of the surfaces given to corr_max / fine_dop
MaxFsK   == 5    \* search_sig: fs in {1000, 1500, ..., 500 * MaxFsK}
MaxData  == 5    \* search_sig: len(data) in 0..MaxData
MaxSeed  == 2    \* search_sig: choices of correlator output per block
MaxCalls == 3    \* mix_carr: number of concurrent callers

-----------------------------------------------------------------------------
(* Arithmetic and numpy helpers *)

Max(a, b) == IF a >= b THEN a ELSE b
Min(a, b) == IF a <= b THEN a ELSE b

\* ceil(a / b) for b > 0
CeilDiv(a, b) == (a + b - 1) \div b

\* np.arange(start, stop, step), step > 0
Arange(start, stop, step) ==
    [k \in 1..Max(CeilDiv(stop - start, step), 0) |-> start + (k - 1) * step]

\* s[a:b] of Python, for a sequence s (0-based, negative indices from the end)
PySlice(s, a, b) ==
    LET n  == Len(s)
        lo == IF a < 0 THEN Max(a + n, 0) ELSE Min(a, n)
        hi == IF b < 0 THEN Max(b + n, 0) ELSE Min(b, n)
    IN  [k \in 1..Max(hi - lo, 0) |-> s[lo + k]]

RECURSIVE SeqSum(_)
SeqSum(s) == IF Len(s) = 0 THEN 0 ELSE s[1] + SeqSum(Tail(s))

RECURSIVE Flatten(_)
\* row-major flattening of a 2D array
Flatten(M) == IF Len(M) = 0 THEN <<>> ELSE M[1] \o Flatten(Tail(M))

\* np.argmax over the flattened array: 0-based index of the first maximum
ArgMax(s) ==
    CHOOSE k \in 0..(Len(s) - 1) :
        /\ \A m \in 0..(Len(s) - 1) : s[m + 1] <= s[k + 1]
        /\ \A m \in 0..(k - 1) : s[m + 1] < s[k + 1]

\* np.unravel_index(k, shape) for a 2D shape with ncols columns
UnravelIndex(k, ncols) == <<k \div ncols, k % ncols>>

\* 10.0 * log10(num / den): math.log10 raises ValueError ("math domain error")
\* for an argument <= 0; a zero denominator is numpy's inf or nan (a
\* warning, no exception), which log10 hands on
TenLog10(num, den) ==
    IF den = 0 THEN [kind |-> "nan", num |-> num, den |-> den]
    ELSE IF num * den > 0 THEN [kind |-> "dB", num |-> num, den |-> den]
    ELSE [kind |-> "ValueError", num |-> num, den |-> den]

\* the float 0.0 as a C/N0 value (10*log10(1))
CN0_ZERO == [kind |-> "dB", num |-> 1, den |-> 1]

-----------------------------------------------------------------------------
(* dop_bins, shift_freq *)

\* DOP_STEP / T in Hz (T in ms)
DopStepHz(t) == (DOP_STEP_NUM * MSEC) \div (DOP_STEP_DEN * t)

dop_bins_narrow(t, max_dop) ==
    Arange(-max_dop, max_dop, DopStepHz(t))

dop_bins(t, max_dop) ==
    Arange(-max_dop, max_dop + DopStepHz(t), DopStepHz(t))

shift_freq_same_spacing(sig, fcn, f) ==
    IF sig = "G1CA" THEN f + G1CA_SPACING * fcn
    ELSE IF sig = "G2CA" THEN f + G1CA_SPACING * fcn
    ELSE f

shift_freq(sig, fcn, f) ==
    IF sig = "G1CA" THEN f + G1CA_SPACING * fcn
    ELSE IF sig = "G2CA" THEN f + G2CA_SPACING * fcn
    ELSE f

-----------------------------------------------------------------------------
(* corr_max, fine_dop *)

MeanNonNegative(sum) == sum >= 0

\* the condition "P_ave > 0.0" on the sum of the cells (P_ave = sum / count)
MeanPositive(sum) == sum > 0

\* cn0 = 10.0 * log10((P_max - P_ave) / P_ave / T) if P_ave > 0.0 else 0.0
\*   (P_max - P_ave) / P_ave / T  =  (P_max*cnt - sum) * MSEC / (sum * T)
CN0(P_max, sum, cnt, t) ==
    IF MeanPositive(sum)
    THEN TenLog10((P_max * cnt - sum) * MSEC, sum * t)
    ELSE CN0_ZERO

corr_max(Ps, t) ==
    LET flat  == Flatten(Ps)
        ix    == UnravelIndex(ArgMax(flat), Len(Ps[1]))
        P_max == Ps[ix[1] + 1][ix[2] + 1]
    IN  [P_max |-> P_max, ix |-> ix,
         cn0 |-> CN0(P_max, SeqSum(flat), Len(flat), t)]

\* -p[1] / (2.0 * p[0]) for p = np.polyfit(xs, ys, 2): the parabola through
\* three points, as the fraction num/den; den = 0 gives inf or nan, no error
PolyfitVertex(xs, ys) ==
    IF Len(xs) = 3 /\ Len(ys) = 3
    THEN LET an == xs[3] * (ys[2] - ys[1]) + xs[2] * (ys[1] - ys[3])
                   + xs[1] * (ys[3] - ys[2])
             bn == xs[3] * xs[3] * (ys[1] - ys[2]) + xs[2] * xs[2] * (ys[3] - ys[1])
                   + xs[1] * xs[1] * (ys[2] - ys[3])
         IN  [kind |-> "fit", xs |-> xs, num |-> -bn, den |-> 2 * an]
    ELSE [kind |-> "fit", xs |-> xs, num |-> 0, den |-> 0]

AtGridStart(f, ix) == ix = 0

\* the condition "ix == 0 or ix == len(fds) - 1"
AtGridBoundary(f, ix) == ix = 0 \/ ix = Len(f) - 1

fine_dop(Prow, f, ix) ==
    IF AtGridBoundary(f, ix)
    THEN [kind |-> "bin", xs |-> <<f[ix + 1]>>, num |-> f[ix + 1], den |-> 1]
    ELSE PolyfitVertex(PySlice(f, ix - 1, ix + 2), PySlice(Prow, ix - 1, ix + 2))

-----------------------------------------------------------------------------
(* The code generator sdr_code (gen_code, code_cyc, gen_code_fft) *)

\* gen_code(sig, prn): the chips, empty for an unsupported signal or PRN
gen_code(sig, prn) ==
    IF \/ sig = "L1CA" /\ prn \in 1..210
       \/ sig \in {"G1CA", "G2CA"} /\ prn \in (-7)..6
    THEN <<1, -1, 1>>
    ELSE <<>>

\* code_cyc(sig): code cycle (ms)
code_cyc(sig) == 1

\* len(gen_code_fft(code, T, 0.0, fs, N, Nz)): N samples and Nz padded zeros
gen_code_fft_len(n, nz) == n + nz

-----------------------------------------------------------------------------
(* search_code and the accumulation of search_sig *)

\* outputs of the correlator (mix_carr, then corr_fft), as <<re, im>>
CorrVals == <<(<<0, 0>>), (<<1, 0>>), (<<0, -1>>), (<<1, 1>>), (<<-2, 1>>)>>

\* the correlator outputs of one block: one row of L values per Doppler bin,
\* fixed by the samples of the block (seed)
CorrOut(seed, nb, L) ==
    [b \in 1..nb |-> [k \in 1..L |-> CorrVals[((seed + 3 * b + k) % Len(CorrVals)) + 1]]]

\* np.abs(z) ** 2
Abs2(z) == z[1] * z[1] + z[2] * z[2]

\* P[i] = np.abs(corr_fft(data_carr, code_fft)[0:N]) ** 2, for every bin i
search_code(corr, n) ==
    [b \in 1..Len(corr) |->
        LET head == PySlice(corr[b], 0, n) IN [k \in 1..Len(head) |-> Abs2(head[k])]]

\* np.zeros((rows, cols))
Zeros(rows, cols) == [b \in 1..rows |-> [k \in 1..cols |-> 0]]

Overwrite(A, B) == B

\* P += B
AddSurface(A, B) == [b \in 1..Len(A) |-> [k \in 1..Len(A[b]) |-> A[b][k] + B[b][k]]]

LoopStopStride(data_len, L, n) == data_len - n + 1

\* the stop of range(0, len(data) - len(code_fft) + 1, N)
LoopStop(data_len, L, n) == data_len - L + 1

CodeIsNone(c) == FALSE

\* the condition "len(code) == 0"
IsEmptyCode(c) == Len(c) = 0

-----------------------------------------------------------------------------
(* Outcomes of search_sig *)

DOP_ZERO == [kind |-> "const", xs |-> <<>>, num |-> 0, den |-> 1]

RetNone ==
    [kind |-> "none", P |-> [num |-> <<>>, den |-> 1], fds |-> <<>>,
     coffs |-> [n |-> 0, fs |-> 1], ix |-> <<0, 0>>, cn0 |-> CN0_ZERO, dop |-> DOP_ZERO]

\* return [], [0.0], [0.0], (0, 0), 0.0, 0.0
EmptyResult ==
    [kind |-> "return", P |-> [num |-> <<>>, den |-> 1], fds |-> <<0>>,
     coffs |-> [n |-> 1, fs |-> 1], ix |-> <<0, 0>>, cn0 |-> CN0_ZERO, dop |-> DOP_ZERO]

\* return P / P_max, fds, coffs, ix, cn0, fine_dop(P.T[ix[1]], fds, ix[0]);
\* coffs = np.arange(0, T, 1.0 / fs) is kept as its length n and fs; a
\* ValueError of corr_max leaves search_sig as an exception
Result(Ps, f, t, fs) ==
    LET m == corr_max(Ps, t) IN
    IF m.cn0.kind = "ValueError"
    THEN [RetNone EXCEPT !.kind = "raise", !.cn0 = m.cn0]
    ELSE [kind |-> "return",
          P |-> [num |-> Ps, den |-> m.P_max],
          fds |-> f,
          coffs |-> [n |-> CeilDiv(t * fs, MSEC), fs |-> fs],
          ix |-> m.ix,
          cn0 |-> m.cn0,
          dop |-> fine_dop([b \in 1..Len(Ps) |-> Ps[b][m.ix[2] + 1]], f, m.ix[1])]

-----------------------------------------------------------------------------
(* search_sig: specification SpecAcq *)

Sigs == {"L1CA", "G1CA", "G2CA", "E9XX"}
Prns == {-1, 0, 2}
FsSet == {500 * k : k \in 2..MaxFsK}
FiSet == {0, 4000000}
AcqMaxDops == {0, 700}

NoCall == [fn |-> "none"]

AcqIdle ==
    /\ args = [sig |-> "", prn |-> 0, data_len |-> 0, fs |-> 0, fi |-> 0,
               max_dop |-> 0, zero_pad |-> FALSE]
    /\ pc = "idle" /\ code = <<>> /\ fi = 0 /\ T = 0 /\ N = 0 /\ code_fft = 0
    /\ fds = <<>> /\ P = <<>> /\ i = 0 /\ ret = RetNone
    /\ nshift = 0 /\ offs = <<>> /\ corrs = <<>>

FnIdle == call = NoCall /\ out = <<>>

MixIdle ==
    carr_tbl = <<>> /\ mpc = <<>> /\ libsdr = FALSE /\ nbuild = 0 /\ tread = <<>>

InitAcq ==
    /\ args \in [sig : Sigs, prn : Prns, data_len : 0..MaxData, fs : FsSet,
                 fi : FiSet, max_dop : AcqMaxDops, zero_pad : BOOLEAN]
    /\ pc = "gen_code" /\ code = <<>> /\ fi = args.fi
    /\ T = 0 /\ N = 0 /\ code_fft = 0
    /\ fds = <<>> /\ P = <<>> /\ i = 0 /\ ret = RetNone
    /\ nshift = 0 /\ offs = <<>> /\ corrs = <<>>
    /\ FnIdle /\ MixIdle

\* code = sdr_code.gen_code(sig, prn); if len(code) == 0: return ...
GenCode ==
    /\ pc = "gen_code"
    /\ code' = gen_code(args.sig, args.prn)
    /\ IF IsEmptyCode(code')
       THEN pc' = "done" /\ ret' = EmptyResult
       ELSE pc' = "shift_freq" /\ ret' = ret
    /\ UNCHANGED <<args, fi, T, N, code_fft, fds, P, i, nshift, offs, corrs>>

\* fi = shift_freq(sig, prn, fi)
ShiftFreq ==
    /\ pc = "shift_freq"
    /\ fi' = shift_freq(args.sig, args.prn, fi)
    /\ nshift' = nshift + 1
    /\ pc' = "gen_code_fft"
    /\ UNCHANGED <<args, code, T, N, code_fft, fds, P, i, ret, offs, corrs>>

\* T = code_cyc(sig); N = int(fs * T); code_fft = gen_code_fft(...)
GenCodeFft ==
    /\ pc = "gen_code_fft"
    /\ T' = code_cyc(args.sig)
    /\ N' = (args.fs * T') \div MSEC
    /\ code_fft' = gen_code_fft_len(N', IF args.zero_pad THEN N' ELSE 0)
    /\ pc' = "dop_bins"
    /\ UNCHANGED <<args, code, fi, fds, P, i, ret, nshift, offs, corrs>>

\* fds = dop_bins(T, max_dop); P = np.zeros((len(fds), N)); the loop starts
DopBins ==
    /\ pc = "dop_bins"
    /\ fds' = dop_bins(T, args.max_dop)
    /\ P' = Zeros(Len(fds'), N)
    /\ i' = 0
    /\ pc' = "loop"
    /\ UNCHANGED <<args, code, fi, T, N, code_fft, ret, nshift, offs, corrs>>

\* one iteration: P += search_code(code_fft, T, data, i, fs, fi, fds)
Block ==
    /\ pc = "loop"
    /\ i < LoopStop(args.data_len, code_fft, N)
    /\ \E seed \in 0..MaxSeed :
        /\ P' = AddSurface(P, search_code(CorrOut(seed, Len(fds), code_fft), N))
        /\ corrs' = Append(corrs, seed)
    /\ offs' = Append(offs, i)
    /\ i' = i + N
    /\ UNCHANGED <<args, pc, code, fi, T, N, code_fft, fds, ret, nshift>>

\* the loop ends: corr_max, coffs, fine_dop, return
Finish ==
    /\ pc = "loop"
    /\ ~(i < LoopStop(args.data_len, code_fft, N))
    /\ ret' = Result(P, fds, T, args.fs)
    /\ pc' = "done"
    /\ UNCHANGED <<args, code, fi, T, N, code_fft, fds, P, i, nshift, offs, corrs>>

NextAcq ==
    \/ GenCode /\ UNCHANGED <<fnVars, mixVars>>
    \/ ShiftFreq /\ UNCHANGED <<fnVars, mixVars>>
    \/ GenCodeFft /\ UNCHANGED <<fnVars, mixVars>>
    \/ DopBins /\ UNCHANGED <<fnVars, mixVars>>
    \/ Block /\ UNCHANGED <<fnVars, mixVars>>
    \/ Finish /\ UNCHANGED <<fnVars, mixVars>>

SpecAcq == InitAcq /\ [][NextAcq]_vars


-----------------------------------------------------------------------------
(* Single calls of the pure helpers: specification SpecFn *)

\* code cycles (ms) of the calls
TSet == {1, 2, 4, 10, 20}

\* max_dop of the dop_bins calls (Hz)
MaxDopSet == {100 * k : k \in 0..MaxDopK} \cup {MAX_DOP}

\* shapes <<rows, columns>> of the surfaces given to corr_max
StatShapes == {<<1, 1>>, <<1, 2>>, <<2, 2>>, <<2, 3>>}

\* cell values of those surfaces
StatVals == (-1)..MaxPow

StatSurfaces ==
    UNION {[1..sh[1] -> [1..sh[2] -> StatVals]] : sh \in StatShapes}

\* Doppler grids given to fine_dop: of 1, 2, 3, 4 and 5 bins
FineGrids == {dop_bins(1, md) : md \in {0, 200, 500, 700, 1000}}

CallDopBins ==
    /\ call = NoCall
    /\ \E t \in TSet, md \in MaxDopSet :
        /\ call' = [fn |-> "dop_bins", T |-> t, max_dop |-> md]
        /\ out' = dop_bins(t, md)

CallCorrMax ==
    /\ call = NoCall
    /\ \E Ps \in StatSurfaces, t \in {1, 4} :
        /\ call' = [fn |-> "corr_max", P |-> Ps, T |-> t]
        /\ out' = corr_max(Ps, t)

CallFineDop ==
    /\ call = NoCall
    /\ \E f \in FineGrids :
        \E Prow \in [1..Len(f) -> 0..MaxPow], ix \in 0..(Len(f) - 1) :
            /\ call' = [fn |-> "fine_dop", P |-> Prow, fds |-> f, ix |-> ix]
            /\ out' = fine_dop(Prow, f, ix)

InitFn == AcqIdle /\ FnIdle /\ MixIdle

NextFn ==
    \/ CallDopBins /\ UNCHANGED <<acqVars, mixVars>>
    \/ CallCorrMax /\ UNCHANGED <<acqVars, mixVars>>
    \/ CallFineDop /\ UNCHANGED <<acqVars, mixVars>>

SpecFn == InitFn /\ [][NextFn]_vars

-----------------------------------------------------------------------------
(* Claims about the pure helpers, checked under SpecFn *)

IsDopBinsCall == call.fn = "dop_bins"
IsCorrMaxCall == call.fn = "corr_max"
IsFineDopCall == call.fn = "fine_dop"

\* C2: for T > 0 and max_dop >= 0, dop_bins(T, max_dop) starts at -max_dop,
\* is strictly increasing with constant spacing step = DOP_STEP / T, is
\* symmetric about 0 within one step, and its last element L satisfies
\* max_dop <= L < max_dop + step; T = 1 ms with max_dop = 5000 gives exactly the
\* 21 bins -5000, -4500, ..., 5000.
C2_DopBinsGrid ==
    IsDopBinsCall =>
        LET step == (MSEC \div call.T) \div 2
            n    == Len(out)
        IN  /\ n >= 1
            /\ out[1] = -call.max_dop
            /\ \A k \in 1..(n - 1) : out[k + 1] - out[k] = step /\ out[k] < out[k + 1]
            /\ \A k \in 1..n : 0 <= out[k] + out[n + 1 - k]
                               /\ out[k] + out[n + 1 - k] < step
            /\ call.max_dop <= out[n] /\ out[n] < call.max_dop + step
            /\ (call.T = 1 /\ call.max_dop = 5000) =>
                   out = [k \in 1..21 |-> -5000 + 500 * (k - 1)]

\* a dop_bins call whose max_dop is not a multiple of the step (the last bin
\* exceeds max_dop), and the 21-bin example
C2_Witness ==
    /\ IsDopBinsCall
    /\ call.T = 1 /\ call.max_dop = 700
    /\ out = <<-700, -200, 300, 800>>

C2_WitnessExample ==
    IsDopBinsCall /\ call.T = 1 /\ call.max_dop = 5000 /\ Len(out) = 21

\* C3: corr_max returns cn0 = 0.0 without raising whenever the surface mean is
\* zero or negative (in particular for an all-zero surface); the logarithm is
\* evaluated only when the mean is strictly positive; the returned index is a
\* cell holding the global maximum of the surface.
C3_CorrMaxFallback ==
    IsCorrMaxCall =>
        LET Ps   == call.P
            sum  == SeqSum(Flatten(Ps))
            cell == Ps[out.ix[1] + 1][out.ix[2] + 1]
        IN  /\ sum <= 0 => out.cn0 = CN0_ZERO
            /\ out.cn0 # CN0_ZERO => sum > 0
            /\ out.ix[1] \in 0..(Len(Ps) - 1)
            /\ out.ix[2] \in 0..(Len(Ps[1]) - 1)
            /\ out.P_max = cell
            /\ \A r \in 1..Len(Ps) : \A c \in 1..Len(Ps[r]) : Ps[r][c] <= cell

\* corr_max on an all-zero 2 x 3 surface
C3_Witness ==
    /\ IsCorrMaxCall
    /\ call.P = <<(<<0, 0, 0>>), (<<0, 0, 0>>)>>
    /\ out.cn0 = CN0_ZERO

\* corr_max on a surface of negative mean whose maximum is not the first cell
C3_WitnessNegative ==
    /\ IsCorrMaxCall
    /\ call.P = <<(<<-1, -1, -1>>), (<<-1, 1, -1>>)>>
    /\ out.ix = <<1, 1>> /\ out.cn0 = CN0_ZERO

\* C4: fine_dop returns the peak bin's grid frequency unchanged (no fit)
\* exactly when the peak index is the first or the last index of the grid; for
\* an interior peak index it fits exactly the three points ix-1, ix, ix+1, all
\* inside the grid.
C4_FineDopBoundary ==
    IsFineDopCall =>
        LET f  == call.fds
            ix == call.ix
        IN  /\ (out.kind = "bin") <=> (ix = 0 \/ ix = Len(f) - 1)
            /\ out.kind = "bin" => out.num = f[ix + 1] /\ out.den = 1
            /\ out.kind # "bin" =>
                   /\ out.kind = "fit"
                   /\ ix - 1 >= 0 /\ ix + 1 <= Len(f) - 1
                   /\ out.xs = <<f[ix], f[ix + 1], f[ix + 2]>>

\* a fit at an interior peak, and a boundary peak at the last bin
C4_Witness ==
    /\ IsFineDopCall
    /\ Len(call.fds) = 3 /\ call.ix = 1 /\ call.P = <<1, 2, 0>>
    /\ out.kind = "fit" /\ out.xs = <<-500, 0, 500>>

C4_WitnessLast ==
    IsFineDopCall /\ Len(call.fds) = 4 /\ call.ix = 3 /\ out.kind = "bin"

\* C10: corr_max never raises for a non-empty surface of non-negative values:
\* whenever the mean is strictly positive the argument of the logarithm,
\* (peak - mean) / mean / T, is strictly positive, also for a surface whose
\* cells all hold the same positive value.
C10_CorrMaxNeverRaises ==
    (IsCorrMaxCall /\ \A r \in 1..Len(call.P) : \A c \in 1..Len(call.P[r]) :
                          call.P[r][c] >= 0)
        => /\ out.cn0.kind = "dB"
           /\ SeqSum(Flatten(call.P)) > 0 => out.cn0.num * out.cn0.den > 0

-----------------------------------------------------------------------------
(* mix_carr and the carrier lookup table: specification SpecMix *)

\* np.exp(-2j * np.pi * np.arange(n) / n): entry k is kept as its phase index
CarrTable(n) == [k \in 1..n |-> k - 1]

Callers == 1..MaxCalls

InitMix ==
    /\ AcqIdle /\ FnIdle
    /\ carr_tbl = <<>>
    /\ libsdr \in BOOLEAN
    /\ mpc = [c \in Callers |-> "idle"]
    /\ nbuild = 0
    /\ tread = [c \in Callers |-> -1]

\* mix_carr is entered: "if libsdr and LIBSDR_ENA" hands the call to the library
MixEnter(c) ==
    /\ mpc[c] = "idle"
    /\ mpc' = [mpc EXCEPT ![c] = IF libsdr THEN "done" ELSE "check"]
    /\ UNCHANGED <<carr_tbl, libsdr, nbuild, tread>>

\* if len(carr_tbl) == 0:
MixCheck(c) ==
    /\ mpc[c] = "check"
    /\ mpc' = [mpc EXCEPT ![c] = IF Len(carr_tbl) = 0 THEN "build" ELSE "index"]
    /\ UNCHANGED <<carr_tbl, libsdr, nbuild, tread>>

\* carr_tbl = np.array(np.exp(...), dtype='complex64')
MixBuild(c) ==
    /\ mpc[c] = "build"
    /\ carr_tbl' = CarrTable(CARR_TBL_SIZE)
    /\ nbuild' = nbuild + 1
    /\ mpc' = [mpc EXCEPT ![c] = "index"]
    /\ UNCHANGED <<libsdr, tread>>

\* return buff[ix:ix+N] * carr_tbl[i % n]
MixIndex(c) ==
    /\ mpc[c] = "index"
    /\ tread' = [tread EXCEPT ![c] = Len(carr_tbl)]
    /\ mpc' = [mpc EXCEPT ![c] = "done"]
    /\ UNCHANGED <<carr_tbl, libsdr, nbuild>>

NextMix ==
    \/ \E c \in Callers : MixEnter(c) /\ UNCHANGED <<acqVars, fnVars>>
    \/ \E c \in Callers : MixCheck(c) /\ UNCHANGED <<acqVars, fnVars>>
    \/ \E c \in Callers : MixBuild(c) /\ UNCHANGED <<acqVars, fnVars>>
    \/ \E c \in Callers : MixIndex(c) /\ UNCHANGED <<acqVars, fnVars>>

SpecMix == InitMix /\ [][NextMix]_vars

-----------------------------------------------------------------------------
(* Claims about search_sig, checked under SpecAcq *)

Returned == pc = "done"

\* C1: when gen_code returns an empty code, search_sig returns the explicit
\* empty result ([], [0.0], [0.0], (0, 0), 0.0, 0.0) as a normal value, and
\* does so before any later step: no frequency shift, no code spectrum, no
\* Doppler grid, no block.
C1_EmptyCodeResult ==
    /\ (args.sig = "E9XX" \/ (args.sig = "L1CA" /\ args.prn < 1)) /\ pc # "gen_code"
           => Returned /\ Len(code) = 0
    /\ (Returned /\ Len(code) = 0) =>
           /\ ret.kind = "return"
           /\ ret.P.num = <<>> /\ ret.fds = <<0>> /\ ret.coffs.n = 1
           /\ ret.ix = <<0, 0>> /\ ret.cn0 = CN0_ZERO /\ ret.dop.num = 0
           /\ nshift = 0 /\ fi = args.fi
           /\ code_fft = 0 /\ T = 0 /\ N = 0
           /\ fds = <<>> /\ P = <<>>
           /\ offs = <<>> /\ corrs = <<>>

\* search_sig has returned for an unsupported signal with a buffer that holds
\* several blocks
C1_Witness ==
    Returned /\ args.sig = "E9XX" /\ args.data_len = MaxData /\ ret = EmptyResult

\* C5: a call whose buffer is shorter than one correlation block
\* (len(data) < len(code_fft)) ends in an error before any block is processed
\* and never returns a result computed from an empty accumulation.
C5_ShortBufferFailsFast ==
    (Returned /\ Len(code) > 0 /\ args.data_len < code_fft)
        => ret.kind = "raise" /\ offs = <<>>

\* C6: shift_freq gives fi + fcn * 0.5625 MHz for G1CA, fi + fcn * 0.4375 MHz
\* for G2CA (positive, zero and negative fcn) and fi unchanged otherwise; in
\* one search_sig call it is applied exactly once, before the Doppler grid is
\* built and before any block is processed.
C6_ShiftFreqOnce ==
    /\ nshift <= 1
    /\ nshift = 0 => fi = args.fi /\ fds = <<>> /\ P = <<>> /\ offs = <<>>
    /\ pc \in {"dop_bins", "loop"} \/ (Returned /\ Len(code) > 0) => nshift = 1
    /\ nshift = 1 =>
           /\ args.sig = "G1CA" => fi = args.fi + args.prn * 562500
           /\ args.sig = "G2CA" => fi = args.fi + args.prn * 437500
           /\ args.sig \notin {"G1CA", "G2CA"} => fi = args.fi

\* a G2CA call with a negative channel number has processed a block
C6_Witness ==
    /\ args.sig = "G2CA" /\ args.prn = -1 /\ args.fi = 4000000
    /\ fi = 3562500 /\ Len(offs) >= 1

C6_WitnessG1 ==
    args.sig = "G1CA" /\ args.prn = 2 /\ fi = args.fi + 1125000 /\ Returned

\* C7: with L = len(code_fft) and stride N, the block offsets processed are
\* exactly {k*N : k >= 0 /\ k*N + L <= len(data)}, each once, in increasing
\* order; no processed segment [offset, offset + L) passes the end of the
\* buffer and no full-length block at a multiple of N is skipped.
C7_BlockOffsets ==
    /\ \A k \in 1..Len(offs) :
           /\ offs[k] = (k - 1) * N
           /\ offs[k] + code_fft <= args.data_len
    /\ (Returned /\ Len(code) > 0) =>
           /\ code_fft = IF args.zero_pad THEN 2 * N ELSE N
           /\ \A k \in 0..args.data_len :
                  k * N + code_fft <= args.data_len => k + 1 \in 1..Len(offs)

\* a zero-padded search (L = 4, N = 2) over a buffer of 5 samples has returned
\* after the one block at offset 0 (a block at 2 would end at 6); an unpadded
\* search with N = 1 has processed one block per sample
C7_Witness ==
    /\ Returned /\ args.zero_pad /\ N = 2 /\ args.data_len = 5
    /\ offs = <<0>>

C7_WitnessMany ==
    Returned /\ ~args.zero_pad /\ N = 1 /\ Len(offs) = MaxData

RECURSIVE SumBlocks(_, _, _, _)
\* the elementwise sum of the block surfaces of the processed blocks
SumBlocks(seeds, nb, L, n) ==
    IF Len(seeds) = 0 THEN [b \in 1..nb |-> [k \in 1..n |-> 0]]
    ELSE LET rest == SumBlocks(Tail(seeds), nb, L, n)
             blk  == search_code(CorrOut(seeds[1], nb, L), n)
         IN  [b \in 1..nb |-> [k \in 1..n |-> blk[b][k] + rest[b][k]]]

InLoopOrAfter == pc = "loop" \/ (Returned /\ Len(code) > 0)

C8_State ==
    InLoopOrAfter =>
        /\ Len(P) = Len(fds)
        /\ \A b \in 1..Len(P) : Len(P[b]) = N /\ \A k \in 1..N : P[b][k] >= 0
        /\ Len(offs) = 0 => \A b \in 1..Len(P) : \A k \in 1..N : P[b][k] = 0
        /\ Len(corrs) = Len(offs)
        /\ P = SumBlocks(corrs, Len(fds), code_fft, N)

C8_Step ==
    (pc = "loop") =>
        /\ Len(P') = Len(P)
        /\ \A b \in 1..Len(P) :
               /\ Len(P'[b]) = Len(P[b])
               /\ \A k \in 1..Len(P[b]) : P'[b][k] >= P[b][k]
        /\ P' # P => Len(offs') = Len(offs) + 1
        /\ Len(offs') = Len(offs) + 1 =>
               \A b \in 1..Len(P) : \A k \in 1..Len(P[b]) :
                   P'[b][k] = P[b][k]
                       + search_code(CorrOut(corrs'[Len(corrs')], Len(fds), code_fft), N)[b][k]

\* C8: the running power surface starts as all zeros of shape
\* [number of Doppler bins, N] and is changed only by adding a whole block
\* surface: after every block each cell is non-negative and not less than
\* before the block, and each cell equals the sum of that cell over all
\* processed blocks.
C8_Accumulation == []C8_State /\ [][C8_Step]_vars

\* two blocks have been accumulated into a surface of 4 bins
C8_Witness ==
    /\ Returned /\ Len(offs) = 2 /\ Len(fds) = 4 /\ N = 2
    /\ corrs = <<1, 2>> /\ P = <<(<<1, 2>>), (<<7, 5>>), (<<2, 3>>), (<<5, 1>>)>>

-----------------------------------------------------------------------------
(* Claim about mix_carr, checked under SpecMix *)

\* C9: the carrier lookup table is constructed exactly once and is read-only
\* thereafter: over any interleaving of concurrent mix_carr calls the table is
\* written by at most one construction, and no call reads a table other than
\* the fully constructed 256-entry one.
C9_TableBuiltOnce ==
    /\ nbuild <= 1
    /\ \A c \in DOMAIN tread : tread[c] \in {-1, 256}

====
